---- MODULE Spec2Model ----
(***************************************************************************)
(* Model of Dashboard.py, the Kampala flood monitoring dashboard: the     *)
(* risk classifier, the colour mapper, the file selector / data loader    *)
(* and the render pass of the Streamlit script.                           *)
(*                                                                         *)
(* Scores are kept in half points (Pts(1) = 2), the resolution at which   *)
(* both the category limits (0,2,4,6,8,10) and the gradient stops         *)
(* (0,2.5,5,7.5,10) are integers.                                         *)
(***************************************************************************)
EXTENDS Integers, Sequences, FiniteSets, TLC

VARIABLES
    dir,            \* the directory DATA_DIR as the file system holds it
    pc,             \* position of the script run
    clicked,        \* value st.button returns in this run
    data,           \* module global `data`
    update_time,    \* module global `update_time`
    filename,       \* module global `filename`
    error,          \* module global `error`
    risk_category,  \* module global `risk_category` (the map loop's variable)
    screen,         \* what the run has put on the page
    arg,            \* the score a utility function is applied to
    out             \* the results of the utility functions for arg

vars == <<dir, pc, clicked, data, update_time, filename, error,
          risk_category, screen, arg, out>>

passVars == <<dir, pc, clicked, data, update_time, filename, error,
              risk_category, screen>>

----------------------------------------------------------------------------
(* Bounds *)

\* numeric scores range over -Margin .. Pts(10) + Margin half points
Margin == 4
\* a loaded file holds at most MaxRows records
MaxRows == 2
\* creation times are 1 .. MaxTime
MaxTime == 2

----------------------------------------------------------------------------
(* Configuration *)

\* n score points in half points
Pts(n) == 2 * n

ALERT_THRESHOLD == 1

RISK_CATEGORIES ==
    << [name |-> "No Risk",       lower |-> 0, upper |-> 2],
       [name |-> "Low Risk",      lower |-> 2, upper |-> 4],
       [name |-> "Moderate Risk", lower |-> 4, upper |-> 6],
       [name |-> "High Risk",     lower |-> 6, upper |-> 8],
       [name |-> "Extreme Risk",  lower |-> 8, upper |-> 10] >>

\* a colour string: its three channels, and whether it carries an alpha byte
\* ('#rrggbb' of the palette against '#rrggbbaa' of the colormap)
Hex(r, g, b, a) == [rgb |-> <<r, g, b>>, alpha |-> a]

COLOR_PALETTE(name) ==
    CASE name = "No Risk"       -> Hex(0, 255, 127, FALSE)
      [] name = "Low Risk"      -> Hex(255, 215, 0, FALSE)
      [] name = "Moderate Risk" -> Hex(255, 140, 0, FALSE)
      [] name = "High Risk"     -> Hex(255, 69, 0, FALSE)
      [] name = "Extreme Risk"  -> Hex(255, 0, 0, FALSE)
      [] name = "No Data"       -> Hex(169, 169, 169, FALSE)
      [] name = "Invalid Data"  -> Hex(105, 105, 105, FALSE)

GRADIENT_COLORS ==
    << <<0, 255, 127>>, <<255, 215, 0>>, <<255, 140, 0>>,
       <<255, 69, 0>>, <<255, 0, 0>> >>

----------------------------------------------------------------------------
(* Score values *)

\* A score as a record of the data frame holds it: None, a float NaN, a
\* number, a text that float() parses to a number, a text float() rejects.
Score(k, v) == [k |-> k, v |-> v]

NoneScore == Score("none", 0)
NanScore  == Score("nan", 0)
BadText   == Score("badtext", 0)

NumRange == (0 - Margin) .. (Pts(10) + Margin)

\* the numeric texts tried: "-1.5", "1.5", "10"
TextNums == {0 - 3, 3, Pts(10)}

Scores ==
    {NoneScore, NanScore, BadText}
        \cup {Score("num", v) : v \in NumRange}
        \cup {Score("numtext", v) : v \in TextNums}

\* float(score): the float, or the exception raised
float(score) ==
    CASE score.k = "num"     -> [raises |-> "no", nan |-> FALSE, v |-> score.v]
      [] score.k = "numtext" -> [raises |-> "no", nan |-> FALSE, v |-> score.v]
      [] score.k = "nan"     -> [raises |-> "no", nan |-> TRUE, v |-> 0]
      [] score.k = "badtext" -> [raises |-> "ValueError", nan |-> FALSE, v |-> 0]
      [] score.k = "none"    -> [raises |-> "TypeError", nan |-> FALSE, v |-> 0]

\* comparisons of floats with numbers: every comparison with NaN is false
FLt(f, n) == ~f.nan /\ f.v < n
FLe(f, n) == ~f.nan /\ f.v <= n
FGt(f, n) == ~f.nan /\ f.v > n
FGe(f, n) == ~f.nan /\ f.v >= n

----------------------------------------------------------------------------
(* Utility functions *)

RECURSIVE ScanCategories(_, _)
ScanCategories(f, i) ==
    IF i > Len(RISK_CATEGORIES) THEN "Invalid Data"
    ELSE IF FGe(f, Pts(RISK_CATEGORIES[i].lower)) /\ FLt(f, Pts(RISK_CATEGORIES[i].upper))
         THEN RISK_CATEGORIES[i].name
         ELSE ScanCategories(f, i + 1)

RECURSIVE ScanCategoriesClosed(_, _)
ScanCategoriesClosed(f, i) ==
    IF i > Len(RISK_CATEGORIES) THEN "Invalid Data"
    ELSE IF FGe(f, Pts(RISK_CATEGORIES[i].lower)) /\ FLe(f, Pts(RISK_CATEGORIES[i].upper))
         THEN RISK_CATEGORIES[i].name
         ELSE ScanCategoriesClosed(f, i + 1)

\* get_risk_category with `lower <= score <= upper`
get_risk_category_closed(score) ==
    IF score.k = "none" THEN "No Data"
    ELSE LET f == float(score)
         IN  IF f.raises # "no" THEN "Invalid Data"
             ELSE ScanCategoriesClosed(f, 1)

get_risk_category(score) ==
    IF score.k = "none" THEN "No Data"
    ELSE LET f == float(score)
         IN  IF f.raises # "no" THEN "Invalid Data"
             ELSE ScanCategories(f, 1)

\* LinearColormap(GRADIENT_COLORS, vmin=0, vmax=10): the stops' positions
vmin == 0
vmax == 10
NStops == Len(GRADIENT_COLORS)
\* index[i] for Python index i; a negative i counts from the end
StopIndex(i) ==
    LET j == IF i < 0 THEN NStops + i ELSE i
    IN  (Pts(vmin) * (NStops - 1 - j) + Pts(vmax) * j) \div (NStops - 1)
StopColor(i) == GRADIENT_COLORS[(IF i < 0 THEN NStops + i ELSE i) + 1]

\* cmap(score): the '#rrggbbaa' string, or ValueError ('Thresholds are not
\* sorted.') when no comparison places the value, as for NaN
cmap(f) ==
    IF FLe(f, StopIndex(0)) THEN [raises |-> "no", c |-> Hex(StopColor(0)[1], StopColor(0)[2], StopColor(0)[3], TRUE)]
    ELSE IF FGe(f, StopIndex(NStops - 1))
    THEN [raises |-> "no", c |-> Hex(StopColor(-1)[1], StopColor(-1)[2], StopColor(-1)[3], TRUE)]
    ELSE
      LET i  == Cardinality({u \in 0 .. (NStops - 1) : FGt(f, StopIndex(u))})
          lo == StopIndex(i - 1)
          hi == StopIndex(i)
          Mix(j) == (StopColor(i - 1)[j] * (hi - f.v) + StopColor(i)[j] * (f.v - lo))
                        \div (hi - lo)
      IN  IF lo < hi
          THEN [raises |-> "no", c |-> Hex(Mix(1), Mix(2), Mix(3), TRUE)]
          ELSE [raises |-> "ValueError", c |-> Hex(0, 0, 0, TRUE)]

\* get_color without the `score < 0` test
get_color_no_lower(score) ==
    IF score.k = "none" THEN COLOR_PALETTE("No Data")
    ELSE LET f == float(score)
         IN  IF f.raises # "no" THEN COLOR_PALETTE("Invalid Data")
             ELSE IF FGt(f, Pts(10)) THEN COLOR_PALETTE("Invalid Data")
             ELSE IF cmap(f).raises # "no" THEN COLOR_PALETTE("Invalid Data")
             ELSE cmap(f).c

get_color(score) ==
    IF score.k = "none" THEN COLOR_PALETTE("No Data")
    ELSE LET f == float(score)
         IN  IF f.raises # "no" THEN COLOR_PALETTE("Invalid Data")
             ELSE IF FLt(f, Pts(0)) \/ FGt(f, Pts(10)) THEN COLOR_PALETTE("Invalid Data")
             ELSE IF cmap(f).raises # "no" THEN COLOR_PALETTE("Invalid Data")
             ELSE cmap(f).c

\* safe_float_format(value): "N/A", or the number formatted ("nan" for NaN)
safe_float_format(value) ==
    IF value.k = "none" THEN [text |-> "N/A", v |-> 0]
    ELSE LET f == float(value)
         IN  IF f.raises # "no" THEN [text |-> "N/A", v |-> 0]
             ELSE IF f.nan THEN [text |-> "nan", v |-> 0]
             ELSE [text |-> "number", v |-> f.v]

----------------------------------------------------------------------------
(* The data directory *)

None == "None"
\* the None returned in place of a load time
NoTime == 0

FileNames == {"a.geojson", "b.geojson", "notes.txt"}

\* f.endswith('.geojson')
endswith_geojson(f) == f \in {"a.geojson", "b.geojson"}

Absent == [present |-> FALSE, size |-> 0, ctime |-> 0]
File(size, ctime) == [present |-> TRUE, size |-> size, ctime |-> ctime]

Times == 1 .. MaxTime

\* The directories tried: missing, or holding any mix of absent, empty and
\* non-empty .geojson files of any age, next to a text file newer than all.
Dirs ==
    {[exists |-> FALSE, files |-> [f \in FileNames |-> Absent]]}
        \cup {[exists |-> TRUE,
               files  |-> [f \in FileNames |->
                             IF f = "a.geojson" THEN a
                             ELSE IF f = "b.geojson" THEN b
                             ELSE File(512, MaxTime + 1)]] :
                a \in {Absent} \cup {File(s, t) : s \in {0, 512}, t \in Times},
                b \in {Absent} \cup {File(s, t) : s \in {0, 512}, t \in Times}}

listdir == {f \in FileNames : dir.files[f].present}
getsize(f) == dir.files[f].size
getctime(f) == dir.files[f].ctime

----------------------------------------------------------------------------
(* File contents, as gpd.read_file meets them *)

\* the numbers tried in a file: -2.0, 5.0 and 10.0
RowNums == {0 - 4, 10, Pts(10)}
RowScores == {NoneScore, NanScore, BadText} \cup {Score("num", v) : v \in RowNums}

RECURSIVE SeqsUpTo(_, _)
SeqsUpTo(S, n) ==
    IF n = 0 THEN {<<>>}
    ELSE LET shorter == SeqsUpTo(S, n - 1)
         IN  shorter \cup {Append(q, x) : q \in {r \in shorter : Len(r) = n - 1}, x \in S}

\* a file that does not parse, one without the risk_score column, or a
\* table of up to MaxRows records
Contents ==
    {[kind |-> "corrupt", scores |-> <<>>], [kind |-> "nocol", scores |-> <<>>]}
        \cup {[kind |-> "ok", scores |-> q] : q \in SeqsUpTo(RowScores, MaxRows)}

----------------------------------------------------------------------------
(* load_latest_data *)

NoData == [none |-> TRUE, rows |-> <<>>]
Frame(rows) == [none |-> FALSE, rows |-> rows]

Result(d, t, f, e) == [data |-> d, update_time |-> t, filename |-> f, error |-> e]
Failure(e) == Result(NoData, NoTime, None, e)

\* the files with no size filter
QualifyingFilesAnySize == {f \in listdir : endswith_geojson(f)}

\* files = [f for f in os.listdir(DATA_DIR) if f.endswith('.geojson') and getsize > 0]
QualifyingFiles == {f \in listdir : endswith_geojson(f) /\ getsize(f) > 0}

\* max(files, key=getctime): os.listdir orders the names arbitrarily and max
\* keeps the first of the newest, so any of the newest can be the result
LatestFiles(files) == {f \in files : \A g \in files : getctime(g) <= getctime(f)}

\* data['risk_category'] = data['risk_score'].apply(get_risk_category)
Classified(scores) ==
    [i \in 1 .. Len(scores) |->
        [risk_score |-> scores[i], risk_category |-> get_risk_category(scores[i])]]

\* what reading latest_file returns when it holds content
ReadFile(latest_file, content) ==
    IF content.kind = "corrupt" THEN Failure("Error loading data")
    ELSE IF content.kind = "nocol" THEN Failure("Missing required columns in data")
    ELSE Result(Frame(Classified(content.scores)), getctime(latest_file), latest_file, None)

\* the 4-tuples load_latest_data can return for the directory as it is
load_latest_data ==
    IF ~dir.exists THEN {Failure("Data directory not found")}
    ELSE IF QualifyingFiles = {} THEN {Failure("No valid GeoJSON files found")}
    ELSE {ReadFile(latest_file, content) :
              latest_file \in LatestFiles(QualifyingFiles), content \in Contents}

----------------------------------------------------------------------------
(* The page *)

Panel(state, items) == [state |-> state, items |-> items]
NotRendered == Panel("none", <<>>)

BlankScreen ==
    [errors   |-> 0,            \* calls of st.error
     warnings |-> 0,            \* calls of st.warning
     status   |-> FALSE,        \* the Last Update / Data Age / File row
     metrics  |-> NotRendered,
     chart    |-> NotRendered,
     map      |-> NotRendered,
     table    |-> NotRendered]

Metric(label, text, v) == [label |-> label, text |-> text, v |-> v]

\* the globals and the page of a script run that has not started
FreshRun(c) ==
    /\ pc' = "start"
    /\ clicked' = c
    /\ data' = NoData
    /\ update_time' = NoTime
    /\ filename' = None
    /\ error' = None
    /\ risk_category' = "unset"
    /\ screen' = BlankScreen

TypeOK ==
    /\ dir \in Dirs
    /\ pc \in {"start", "refresh", "rerun", "check", "status", "main", "metrics",
               "chart", "map", "table", "done", "stopped", "crashed"}
    /\ clicked \in BOOLEAN
    /\ data.none \in BOOLEAN
    /\ Len(data.rows) <= MaxRows

----------------------------------------------------------------------------
(* The script run *)

\* line 242: data, update_time, filename, error = load_latest_data()
InitialLoad ==
    /\ pc = "start"
    /\ \E r \in load_latest_data :
          /\ data' = r.data
          /\ update_time' = r.update_time
          /\ filename' = r.filename
          /\ error' = r.error
    /\ pc' = "refresh"
    /\ UNCHANGED <<dir, clicked, risk_category, screen, arg, out>>

\* lines 245-248: the button; when it was clicked the data is loaded again
RefreshControl ==
    /\ pc = "refresh"
    /\ IF clicked
       THEN /\ \E r \in load_latest_data :
                  /\ data' = r.data
                  /\ update_time' = r.update_time
                  /\ filename' = r.filename
                  /\ error' = r.error
            /\ pc' = "rerun"
       ELSE /\ pc' = "check"
            /\ UNCHANGED <<data, update_time, filename, error>>
    /\ UNCHANGED <<dir, clicked, risk_category, screen, arg, out>>

\* line 249: st.experimental_rerun() ends this run and starts the script anew
Rerun ==
    /\ pc = "rerun"
    /\ FreshRun(FALSE)
    /\ UNCHANGED <<dir, arg, out>>

\* lines 252-254 with the st.stop() left out
ErrorHandlingNoStop ==
    /\ pc = "check"
    /\ IF error # None
       THEN /\ screen' = [screen EXCEPT !.errors = @ + 1]
            /\ pc' = "main"
       ELSE /\ pc' = "status"
            /\ UNCHANGED screen
    /\ UNCHANGED <<dir, clicked, data, update_time, filename, error,
                   risk_category, arg, out>>

\* lines 252-254
ErrorHandling ==
    /\ pc = "check"
    /\ IF error # None
       THEN /\ screen' = [screen EXCEPT !.errors = @ + 1]
            /\ pc' = "stopped"
       ELSE /\ pc' = "status"
            /\ UNCHANGED screen
    /\ UNCHANGED <<dir, clicked, data, update_time, filename, error,
                   risk_category, arg, out>>

\* lines 257-268
StatusDisplay ==
    /\ pc = "status"
    /\ IF update_time # NoTime /\ filename # None
       THEN /\ screen' = [screen EXCEPT !.status = TRUE]
            /\ pc' = "main"
       ELSE /\ screen' = [screen EXCEPT !.warnings = @ + 1]
            /\ pc' = "stopped"
    /\ UNCHANGED <<dir, clicked, data, update_time, filename, error,
                   risk_category, arg, out>>

\* lines 271 and 385-389: the guard of the main content
MainContent ==
    /\ pc = "main"
    /\ IF ~data.none /\ data.rows # <<>>
       THEN /\ pc' = "metrics"
            /\ UNCHANGED screen
       ELSE /\ screen' = [screen EXCEPT !.warnings = @ + 1]
            /\ pc' = "done"
    /\ UNCHANGED <<dir, clicked, data, update_time, filename, error,
                   risk_category, arg, out>>

\* the scores of the loaded records, in row order
RiskScores == [i \in 1 .. Len(data.rows) |-> data.rows[i].risk_score]

NotNone(x) == x.k # "none"

\* a float as a value safe_float_format is given
AsScore(f) == IF f.nan THEN NanScore ELSE Score("num", f.v)

\* max(values): the first value is kept until a later one compares greater
RECURSIVE PyMaxFrom(_, _, _)
PyMaxFrom(fs, i, best) ==
    IF i > Len(fs) THEN best
    ELSE PyMaxFrom(fs, i + 1, IF FGt(fs[i], best.v) /\ ~best.nan THEN fs[i] ELSE best)
PyMax(fs) == PyMaxFrom(fs, 2, fs[1])

\* lines 278-284: the Highest Risk metric
HighestRisk ==
    LET valid_scores == SelectSeq(RiskScores, NotNone)
        floats == [i \in 1 .. Len(valid_scores) |-> float(valid_scores[i])]
    IN  IF \E i \in 1 .. Len(floats) : floats[i].raises # "no"
        THEN Metric("Highest Risk", "N/A", 0)
        ELSE LET max_risk == IF floats # <<>> THEN AsScore(PyMax(floats)) ELSE Score("num", 0)
             IN  Metric("Highest Risk", safe_float_format(max_risk).text,
                        safe_float_format(max_risk).v)

\* line 292-293: float(x) of a record that is not None raises
AlertCountRaises ==
    \E i \in 1 .. Len(RiskScores) :
        NotNone(RiskScores[i]) /\ float(RiskScores[i]).raises # "no"

\* line 292-293: sum(1 for x in scores if x is not None and float(x) > ALERT_THRESHOLD)
AlertCount ==
    Cardinality({i \in 1 .. Len(RiskScores) :
                    NotNone(RiskScores[i]) /\ FGt(float(RiskScores[i]), Pts(ALERT_THRESHOLD))})

\* lines 273-294: the metrics row. The alert count is computed outside any
\* try: when it raises, the exception ends the run.
Metrics ==
    /\ pc = "metrics"
    /\ \E areaRaises \in BOOLEAN :
         LET shown == << Metric("Total Zones", "number", Len(data.rows)),
                         HighestRisk,
                         IF areaRaises THEN Metric("Area", "N/A", 0)
                                       ELSE Metric("Area", "number", Len(data.rows)) >>
         IN  IF AlertCountRaises
             THEN /\ screen' = [screen EXCEPT !.metrics = Panel("cut short", shown)]
                  /\ pc' = "crashed"
             ELSE /\ screen' = [screen EXCEPT !.metrics =
                         Panel("shown", Append(shown, Metric("Alert Zones", "number", AlertCount)))]
                  /\ pc' = "chart"
    /\ UNCHANGED <<dir, clicked, data, update_time, filename, error,
                   risk_category, arg, out>>

\* the labels charted when 'Invalid Data' is left out of the list
all_categories_short ==
    [i \in 1 .. Len(RISK_CATEGORIES) |-> RISK_CATEGORIES[i].name] \o <<"No Data">>

\* all_categories = list(RISK_CATEGORIES.keys()) + ['No Data', 'Invalid Data']
all_categories ==
    [i \in 1 .. Len(RISK_CATEGORIES) |-> RISK_CATEGORIES[i].name]
        \o <<"No Data", "Invalid Data">>

\* data['risk_category'].value_counts(): a count for each label that occurs
value_counts ==
    LET present == {data.rows[i].risk_category : i \in 1 .. Len(data.rows)}
    IN  [c \in present |->
            Cardinality({i \in 1 .. Len(data.rows) : data.rows[i].risk_category = c})]

\* .reindex(labels, fill_value=0)
reindex(counts, labels) ==
    [i \in 1 .. Len(labels) |->
        [label |-> labels[i],
         count |-> IF labels[i] \in DOMAIN counts THEN counts[labels[i]] ELSE 0]]

\* lines 297-304: the distribution chart
RiskDistribution ==
    /\ pc = "chart"
    /\ \E raises \in BOOLEAN :
         IF raises
         THEN screen' = [screen EXCEPT !.errors = @ + 1, !.chart = Panel("error", <<>>)]
         ELSE screen' = [screen EXCEPT !.chart =
                            Panel("shown", reindex(value_counts, all_categories))]
    /\ pc' = "map"
    /\ UNCHANGED <<dir, clicked, data, update_time, filename, error,
                   risk_category, arg, out>>

\* lines 318-338: what the loop leaves in the map for row i. The score is
\* bound as the lambda's default; risk_category is not, the lambda reads the
\* global when it is called.
Layer(i) ==
    [score    |-> data.rows[i].risk_score,
     tooltip  |-> [score    |-> safe_float_format(data.rows[i].risk_score),
                   category |-> data.rows[i].risk_category]]

\* lines 330-336: style_function of a layer, called with the global at value g
style_function(layer, g) ==
    [fillColor |-> get_color(layer.score),
     dashArray |-> g = "Invalid Data",
     tooltip   |-> layer.tooltip]

\* lines 307-346: the map. The loop runs over all rows, then folium_static
\* renders the map and only then calls each layer's style_function.
RiskMap ==
    /\ pc = "map"
    /\ risk_category' = data.rows[Len(data.rows)].risk_category
    /\ \E raises \in BOOLEAN :
         IF raises
         THEN screen' = [screen EXCEPT !.errors = @ + 1, !.map = Panel("error", <<>>)]
         ELSE screen' = [screen EXCEPT !.map =
                 Panel("shown", [i \in 1 .. Len(data.rows) |->
                                    style_function(Layer(i), risk_category')])]
    /\ pc' = "table"
    /\ UNCHANGED <<dir, clicked, data, update_time, filename, error, arg, out>>

\* the _sort_key of a record: float(x) if x is not None else -1
sort_key(x) ==
    IF x.k = "none" THEN [raises |-> "no", nan |-> FALSE, v |-> Pts(0 - 1)]
    ELSE float(x)

\* sort_values('_sort_key', ascending=False): a must come before b. NaN keys
\* go last; records with equal keys come in an order the sort leaves open.
KeyBefore(a, b) == (~a.nan /\ b.nan) \/ (~a.nan /\ ~b.nan /\ a.v > b.v)

RowOrders(n) ==
    {p \in [1 .. n -> 1 .. n] : \A i, j \in 1 .. n : p[i] = p[j] => i = j}

\* the row orders sort_values can produce
SortedOrders ==
    {p \in RowOrders(Len(data.rows)) :
        \A i, j \in 1 .. Len(data.rows) :
            i < j => ~KeyBefore(sort_key(RiskScores[p[j]]), sort_key(RiskScores[p[i]]))}

\* lines 359-364: the columns shown for a record
DisplayRow(row) ==
    [risk_score_display |-> IF row.risk_score.k # "none"
                            THEN safe_float_format(row.risk_score)
                            ELSE [text |-> "N/A", v |-> 0],
     risk_category      |-> row.risk_category]

\* lines 349-384: the table
DataTable ==
    /\ pc = "table"
    /\ IF \E i \in 1 .. Len(RiskScores) : sort_key(RiskScores[i]).raises # "no"
       THEN screen' = [screen EXCEPT !.errors = @ + 1, !.table = Panel("error", <<>>)]
       ELSE \E raises \in BOOLEAN, p \in SortedOrders :
              IF raises
              THEN screen' = [screen EXCEPT !.errors = @ + 1, !.table = Panel("error", <<>>)]
              ELSE screen' = [screen EXCEPT !.table =
                      Panel("shown", [i \in 1 .. Len(data.rows) |-> DisplayRow(data.rows[p[i]])])]
    /\ pc' = "done"
    /\ UNCHANGED <<dir, clicked, data, update_time, filename, error,
                   risk_category, arg, out>>

\* the user clicks Refresh Data on the page a run has left: the script runs
\* again, and this time st.button returns True
ClickRefresh ==
    /\ pc \in {"done", "stopped", "crashed"}
    /\ FreshRun(TRUE)
    /\ UNCHANGED <<dir, arg, out>>

----------------------------------------------------------------------------
(* The utility functions applied to one score *)

NoOut ==
    [classified |-> FALSE, category |-> "",
     colored    |-> FALSE, color    |-> Hex(0, 0, 0, FALSE),
     formatted  |-> FALSE, text     |-> [text |-> "", v |-> 0]]

Classify ==
    /\ ~out.classified
    /\ out' = [out EXCEPT !.classified = TRUE, !.category = get_risk_category(arg)]
    /\ UNCHANGED <<arg, passVars>>

Colorize ==
    /\ ~out.colored
    /\ out' = [out EXCEPT !.colored = TRUE, !.color = get_color(arg)]
    /\ UNCHANGED <<arg, passVars>>

Format ==
    /\ ~out.formatted
    /\ out' = [out EXCEPT !.formatted = TRUE, !.text = safe_float_format(arg)]
    /\ UNCHANGED <<arg, passVars>>

----------------------------------------------------------------------------
(* Specifications *)

\* the first run of the script over any of the directories
Init ==
    /\ dir \in Dirs
    /\ pc = "start"
    /\ clicked = FALSE
    /\ data = NoData
    /\ update_time = NoTime
    /\ filename = None
    /\ error = None
    /\ risk_category = "unset"
    /\ screen = BlankScreen
    /\ arg = NoneScore
    /\ out = NoOut

Next ==
    \/ InitialLoad
    \/ RefreshControl
    \/ Rerun
    \/ ErrorHandling
    \/ StatusDisplay
    \/ MainContent
    \/ Metrics
    \/ RiskDistribution
    \/ RiskMap
    \/ DataTable
    \/ ClickRefresh

Spec == Init /\ [][Next]_vars

\* the utility functions on their own, over every score
InitFn ==
    /\ dir = [exists |-> FALSE, files |-> [f \in FileNames |-> Absent]]
    /\ pc = "start"
    /\ clicked = FALSE
    /\ data = NoData
    /\ update_time = NoTime
    /\ filename = None
    /\ error = None
    /\ risk_category = "unset"
    /\ screen = BlankScreen
    /\ arg \in Scores
    /\ out = NoOut

NextFn ==
    \/ Classify
    \/ Colorize
    \/ Format

SpecFn == InitFn /\ [][NextFn]_vars

----------------------------------------------------------------------------
(* Properties of the utility functions, under SpecFn *)

IsNumber(score) == score.k \in {"num", "numtext"}
GrayA == Hex(169, 169, 169, FALSE)
GrayB == Hex(105, 105, 105, FALSE)
FiveLabels == {"No Risk", "Low Risk", "Moderate Risk", "High Risk", "Extreme Risk"}

\* the ranges of RISK_CATEGORIES that contain the number v
RangesHolding(v) ==
    {i \in 1 .. Len(RISK_CATEGORIES) :
        Pts(RISK_CATEGORIES[i].lower) <= v /\ v < Pts(RISK_CATEGORIES[i].upper)}

\* C1: get_risk_category returns a label for every score: 'No Data' for
\* None; for a number s with 0 <= s < 10 one of the five risk labels, the one
\* whose range [lower, upper) holds s, and no other range holds s; 'Invalid
\* Data' for every other score (a number below 0 or from 10 up, NaN, a text
\* that is no number).
C1_ClassifierMatchesRanges ==
    out.classified =>
        IF arg.k = "none" THEN out.category = "No Data"
        ELSE IF IsNumber(arg) /\ 0 <= arg.v /\ arg.v < Pts(10)
        THEN /\ out.category \in FiveLabels
             /\ Cardinality(RangesHolding(arg.v)) = 1
             /\ \A i \in RangesHolding(arg.v) : RISK_CATEGORIES[i].name = out.category
        ELSE out.category = "Invalid Data"

\* C1 witness: the score 2.0, on the limit between two ranges, was classified
\* into the upper one
C1_Witness ==
    /\ out.classified
    /\ arg = Score("num", Pts(2))
    /\ out.category = "Low Risk"

\* the colours the gradient produces over [0, 10]
GradientColors ==
    {cmap([raises |-> "no", nan |-> FALSE, v |-> x]).c : x \in Pts(0) .. Pts(10)}

\* C6: get_color returns a colour for every score: gray A for None, gray B
\* for a text that is no number, for NaN and for a number outside [0, 10];
\* neither gray is a colour of the gradient, and a score gets a colour of
\* the gradient only when it is a number inside [0, 10].
C6_SentinelColors ==
    /\ GrayA \notin GradientColors
    /\ GrayB \notin GradientColors
    /\ out.colored =>
        IF arg.k = "none" THEN out.color = GrayA
        ELSE IF IsNumber(arg) /\ 0 <= arg.v /\ arg.v <= Pts(10)
        THEN out.color \in GradientColors
        ELSE out.color = GrayB

\* C6 witness: the score 10.5, just above the scale, was coloured gray B
C6_Witness ==
    /\ out.colored
    /\ arg = Score("num", Pts(10) + 1)
    /\ out.color = GrayB

\* C10: the classifier and the colour mapper agree on the sentinels: the
\* colour of a score is gray B exactly when its category is 'Invalid Data'
\* and gray A exactly when its category is 'No Data'.
C10_SentinelsAgree ==
    (out.classified /\ out.colored) =>
        /\ (out.color = GrayB) <=> (out.category = "Invalid Data")
        /\ (out.color = GrayA) <=> (out.category = "No Data")

----------------------------------------------------------------------------
(* Properties of the loader and of the script run, under Spec *)

\* a load has returned in this run
Loaded == pc # "start"

\* the .geojson files of the directory that are not empty
NonEmptyGeojson ==
    {f \in {"a.geojson", "b.geojson"} : dir.files[f].present /\ dir.files[f].size > 0}

\* C2: the file load_latest_data selects is a .geojson file that is not
\* empty and no such file is newer; an empty .geojson file is never
\* selected, even when it is the newest; when the directory holds no such
\* file the load returns the 'no files' error and no record set.
C2_SelectsNewestNonEmpty ==
    Loaded =>
        /\ filename # None =>
              /\ filename \in NonEmptyGeojson
              /\ update_time = dir.files[filename].ctime
              /\ \A g \in NonEmptyGeojson : dir.files[g].ctime <= update_time
        /\ (dir.exists /\ NonEmptyGeojson = {}) =>
              /\ error = "No valid GeoJSON files found"
              /\ data = NoData
              /\ filename = None

\* C2 witness: a file was selected although an empty .geojson file is newer
C2_Witness ==
    /\ Loaded
    /\ filename # None
    /\ \E f \in {"a.geojson", "b.geojson"} :
          /\ dir.files[f].present
          /\ dir.files[f].size = 0
          /\ dir.files[f].ctime > dir.files[filename].ctime

FatalErrors ==
    {"Data directory not found", "No valid GeoJSON files found",
     "Missing required columns in data", "Error loading data"}

\* C3: a load that fails (directory missing, no qualifying file, missing
\* column, parse error) returns an error with no record set, no load time
\* and no file name, and a load that succeeds returns all three with no
\* error; nothing is on the page before the error check, whether the load
\* was the run's first or the one the refresh button triggered; and a run
\* that passes the error check with an error has shown exactly one error, has
\* stopped and has rendered no panel.
C3_FatalErrorsStopThePass ==
    /\ Loaded =>
          /\ error \in FatalErrors \cup {None}
          /\ error # None => (data = NoData /\ update_time = NoTime /\ filename = None)
          /\ error = None => (~data.none /\ update_time # NoTime /\ filename # None)
    /\ pc \in {"start", "refresh", "rerun", "check"} => screen = BlankScreen
    /\ (pc \notin {"start", "refresh", "rerun", "check"} /\ error # None) =>
          /\ pc = "stopped"
          /\ screen = [BlankScreen EXCEPT !.errors = 1]

\* C3 witness: the run stopped on the missing directory with one error shown
C3_Witness ==
    /\ pc = "stopped"
    /\ error = "Data directory not found"
    /\ screen.errors = 1
    /\ screen.metrics = NotRendered

HasBadText == \E i \in 1 .. Len(data.rows) : data.rows[i].risk_score = BadText

Rendered(panel) == panel.state \in {"shown", "error"}

\* C4: a record whose score is a text that is no number is labelled
\* 'Invalid Data', and the run of a record set that holds one does not fail:
\* it ends with the metrics, the chart, the map and the table rendered.
C4_BadScoreDoesNotFailThePass ==
    HasBadText =>
        /\ \A i \in 1 .. Len(data.rows) :
              data.rows[i].risk_score = BadText => data.rows[i].risk_category = "Invalid Data"
        /\ pc # "crashed"
        /\ pc = "done" =>
              /\ screen.metrics.state = "shown"
              /\ Rendered(screen.chart)
              /\ Rendered(screen.map)
              /\ Rendered(screen.table)

\* C5: every panel is fail-soft: a run over a loaded, non-empty record set
\* always reaches its end, and there each of the four panels is either
\* rendered or replaced by its own error message.
C5_PanelsFailSoft ==
    (~data.none /\ data.rows # <<>>) =>
        /\ pc # "crashed"
        /\ pc = "done" =>
              /\ screen.metrics.state = "shown"
              /\ Rendered(screen.chart)
              /\ Rendered(screen.map)
              /\ Rendered(screen.table)

RECURSIVE SumCounts(_)
SumCounts(items) ==
    IF items = <<>> THEN 0 ELSE Head(items).count + SumCounts(Tail(items))

SevenLabels ==
    <<"No Risk", "Low Risk", "Moderate Risk", "High Risk", "Extreme Risk",
      "No Data", "Invalid Data">>

\* C7: the chart holds one count for each of the seven labels, in the
\* declared order, each the number of records with that label (zero when
\* there is none), and the counts add up to the number of records.
C7_ChartCountsEveryRecord ==
    screen.chart.state = "shown" =>
        /\ Len(screen.chart.items) = Len(SevenLabels)
        /\ \A i \in 1 .. Len(SevenLabels) :
              /\ screen.chart.items[i].label = SevenLabels[i]
              /\ screen.chart.items[i].count =
                    Cardinality({r \in 1 .. Len(data.rows) :
                                    get_risk_category(data.rows[r].risk_score) = SevenLabels[i]})
        /\ SumCounts(screen.chart.items) = Len(data.rows)

\* C7 witness: a chart of two records, one of them 'Invalid Data', with a
\* zero for 'No Risk'
C7_Witness ==
    /\ screen.chart.state = "shown"
    /\ Len(data.rows) = MaxRows
    /\ screen.chart.items[7].count = 1
    /\ screen.chart.items[1].count = 0

\* C8: the table is sorted by descending score and every record without a
\* score comes after every record with a numeric score, negative ones
\* included.
C8_AbsentScoresLast ==
    screen.table.state = "shown" =>
        \A i, j \in 1 .. Len(screen.table.items) :
            (i < j /\ screen.table.items[j].risk_score_display.text = "number") =>
                /\ screen.table.items[i].risk_score_display.text # "N/A"
                /\ screen.table.items[i].risk_score_display.text = "number" =>
                      screen.table.items[i].risk_score_display.v
                          >= screen.table.items[j].risk_score_display.v

\* C9: a shape of the map has a dashed border exactly when its own record
\* is 'Invalid Data', whatever the other records are.
C9_DashedIffInvalid ==
    screen.map.state = "shown" =>
        \A i \in 1 .. Len(screen.map.items) :
            screen.map.items[i].dashArray
                <=> (screen.map.items[i].tooltip.category = "Invalid Data")

====
